---- MODULE Spec2Model ----
(***************************************************************************)
(* A model of the Local Event Notifier (src/main.py): the configuration    *)
(* store (load_config / save_config over config.json and the process       *)
(* environment), the keyword matcher, the request handlers and the check   *)
(* pipeline _perform_check.                                                *)
(*                                                                         *)
(* A Python str is a sequence of one-character strings, a Python list of   *)
(* str a sequence of those, a Python dict a function from key names to     *)
(* values.  An optional value is a sequence of length 0 (None) or 1.       *)
(***************************************************************************)
EXTENDS Integers, Sequences, FiniteSets, TLC

VARIABLES
    env,        \* os.environ: the variables the program reads
    exists,     \* whether config.json exists
    data,       \* the contents of config.json, a sequence of JSON tokens
    pc,         \* position of the request being handled / of the driver
    op,         \* ConfigStore driver: the last operation applied
    arg,        \* ConfigStore driver: the argument of the last save_config
    cfg,        \* _perform_check: config / ConfigStore driver: the last dict loaded
    req,        \* the request being handled (route, form fields)
    url,        \* _perform_check: local url
    keywords,   \* _perform_check / check_keywords: local keywords
    text,       \* _perform_check: local text (optional) / check_keywords: text
    found,      \* _perform_check / check_keywords: found_keywords
    resp,       \* the response of the last finished request
    trace,      \* the stages the current invocation has run, in order
    sent,       \* _perform_check: email_sent (optional)
    tpc,        \* concurrent handlers: each thread's position
    tloc,       \* concurrent handlers: each thread's locals
    saved,      \* concurrent handlers: the documents complete saves wrote
    observed    \* concurrent handlers: what the reads of config.json decoded

vars == <<env, exists, data, pc, op, arg, cfg, req, url, keywords, text,
          found, resp, trace, sent, tpc, tloc, saved, observed>>

---------------------------------------------------------------------------
(* Optional values and Python str / list / dict primitives.                *)

None == <<>>
Some(v) == <<v>>
IsNone(o) == Len(o) = 0
Val(o) == o[1]

EmptyStr == <<>>
EmptyDict == [k \in {} |-> <<>>]

\* dict.get(k, default)
Get(d, k, default) == IF k \in DOMAIN d THEN d[k] ELSE default

\* d[k] = v
Put(d, k, v) == [x \in (DOMAIN d) \cup {k} |-> IF x = k THEN v ELSE d[x]]

IsSpace(c) == c = " "

RECURSIVE lstrip(_)
lstrip(s) == IF Len(s) > 0 /\ IsSpace(s[1]) THEN lstrip(Tail(s)) ELSE s

RECURSIVE rstrip(_)
rstrip(s) ==
    IF Len(s) > 0 /\ IsSpace(s[Len(s)])
    THEN rstrip(SubSeq(s, 1, Len(s) - 1))
    ELSE s

\* str.strip()
strip(s) == rstrip(lstrip(s))

lower_char(c) ==
    CASE c = "A" -> "a"
      [] c = "B" -> "b"
      [] c = "S" -> "s"
      [] c = "U" -> "u"
      [] OTHER -> c

\* str.lower()
lower(s) == [i \in 1..Len(s) |-> lower_char(s[i])]

StartsWith(s, p) == Len(p) <= Len(s) /\ SubSeq(s, 1, Len(p)) = p

RECURSIVE split_from(_, _, _)
split_from(s, sep, cur) ==
    IF Len(s) = 0 THEN <<cur>>
    ELSE IF StartsWith(s, sep)
         THEN <<cur>> \o split_from(SubSeq(s, Len(sep) + 1, Len(s)), sep, <<>>)
         ELSE split_from(Tail(s), sep, Append(cur, Head(s)))

\* str.split(sep)
split(s, sep) == split_from(s, sep, <<>>)

RECURSIVE join(_, _)
\* sep.join(parts)
join(sep, parts) ==
    IF Len(parts) = 0 THEN <<>>
    ELSE IF Len(parts) = 1 THEN parts[1]
    ELSE parts[1] \o sep \o join(sep, Tail(parts))

\* sub in s
contains(sub, s) ==
    \E i \in 0..(Len(s) - Len(sub)) : SubSeq(s, i + 1, i + Len(sub)) = sub

RECURSIVE strip_nonempty(_)
strip_nonempty(parts) ==
    IF Len(parts) = 0 THEN <<>>
    ELSE (IF Len(strip(Head(parts))) > 0 THEN <<strip(Head(parts))>> ELSE <<>>)
         \o strip_nonempty(Tail(parts))

\* [kw.strip() for kw in s.split(',') if kw.strip()]
comma_list(s) == strip_nonempty(split(s, <<",">>))

---------------------------------------------------------------------------
(* json.dump / json.load over a token sequence.  A token is a punctuation  *)
(* mark, a member key or a string value.                                   *)

Tok(t, v) == [t |-> t, v |-> v]

KeyOrder == <<"url", "keywords", "sender_email", "sender_password", "receiver_email">>

dump_value(k, v) ==
    IF k = "keywords"
    THEN <<Tok("[", <<>>)>> \o [i \in 1..Len(v) |-> Tok("str", v[i])] \o <<Tok("]", <<>>)>>
    ELSE <<Tok("str", v)>>

RECURSIVE dump_members(_, _)
dump_members(obj, keys) ==
    IF Len(keys) = 0 THEN <<>>
    ELSE (IF Head(keys) \in DOMAIN obj
          THEN <<Tok("key", <<Head(keys)>>)>> \o dump_value(Head(keys), obj[Head(keys)])
          ELSE <<>>)
         \o dump_members(obj, Tail(keys))

\* json.dump(obj, f): the document written
json_dump(obj) == <<Tok("{", <<>>)>> \o dump_members(obj, KeyOrder) \o <<Tok("}", <<>>)>>

DecodeError == [ok |-> FALSE, obj |-> EmptyDict]

RECURSIVE parse_list(_, _, _)
\* the elements of an array from position i: [ok, val, next]
parse_list(toks, i, acc) ==
    IF i > Len(toks) THEN [ok |-> FALSE, val |-> <<>>, next |-> i]
    ELSE IF toks[i].t = "]" THEN [ok |-> TRUE, val |-> acc, next |-> i + 1]
    ELSE IF toks[i].t = "str" THEN parse_list(toks, i + 1, Append(acc, toks[i].v))
    ELSE [ok |-> FALSE, val |-> <<>>, next |-> i]

RECURSIVE parse_members(_, _, _)
parse_members(toks, i, obj) ==
    IF i > Len(toks) THEN DecodeError
    ELSE IF toks[i].t = "}"
         THEN (IF i = Len(toks) THEN [ok |-> TRUE, obj |-> obj] ELSE DecodeError)
    ELSE IF toks[i].t = "key" /\ i + 1 <= Len(toks)
         THEN (IF toks[i + 1].t = "str"
               THEN parse_members(toks, i + 2, Put(obj, toks[i].v[1], toks[i + 1].v))
               ELSE IF toks[i + 1].t = "["
                    THEN LET l == parse_list(toks, i + 2, <<>>)
                         IN  IF l.ok
                             THEN parse_members(toks, l.next, Put(obj, toks[i].v[1], l.val))
                             ELSE DecodeError
                    ELSE DecodeError)
    ELSE DecodeError

\* json.load(f) on the contents read: the dict, or a JSONDecodeError
json_load(toks) ==
    IF Len(toks) >= 2 /\ toks[1].t = "{"
    THEN parse_members(toks, 2, EmptyDict)
    ELSE DecodeError

---------------------------------------------------------------------------
(* ConfigStore: load_config and save_config.                               *)

\* os.environ.get(name, '')
env_get(e, name) == e[name]

\* save_config: the dict handed to json.dump
safe_config(config) ==
    Put(Put(EmptyDict, "url", Get(config, "url", EmptyStr)),
        "keywords", Get(config, "keywords", <<>>))

\* a slip: the whole dict is written, secrets included
save_config_everything(config) == json_dump(config)

\* save_config(config): the contents of config.json once the file is closed
save_config(config) == json_dump(safe_config(config))

\* a slip: the environment's default url wins over the stored one
merge_env_default_first(config, e) ==
    LET c1 == Put(config, "url",
                  IF Len(env_get(e, "DEFAULT_URL")) > 0
                  THEN env_get(e, "DEFAULT_URL")
                  ELSE Get(config, "url", EmptyStr))
        keywords_env == env_get(e, "DEFAULT_KEYWORDS")
        c2 == IF Len(Get(c1, "keywords", <<>>)) = 0 /\ Len(keywords_env) > 0
              THEN Put(c1, "keywords", comma_list(keywords_env))
              ELSE c1
        c3 == Put(c2, "sender_email", env_get(e, "SENDER_EMAIL"))
        c4 == Put(c3, "sender_password", env_get(e, "SENDER_EMAIL_PASSWORD"))
    IN  Put(c4, "receiver_email", env_get(e, "RECEIVER_EMAIL"))

\* load_config, after the file was read: defaults and secrets from the environment
merge_env(config, e) ==
    LET c1 == Put(config, "url",
                  IF Len(Get(config, "url", EmptyStr)) > 0
                  THEN Get(config, "url", EmptyStr)
                  ELSE env_get(e, "DEFAULT_URL"))
        keywords_env == env_get(e, "DEFAULT_KEYWORDS")
        c2 == IF Len(Get(c1, "keywords", <<>>)) = 0 /\ Len(keywords_env) > 0
              THEN Put(c1, "keywords", comma_list(keywords_env))
              ELSE c1
        c3 == Put(c2, "sender_email", env_get(e, "SENDER_EMAIL"))
        c4 == Put(c3, "sender_password", env_get(e, "SENDER_EMAIL_PASSWORD"))
    IN  Put(c4, "receiver_email", env_get(e, "RECEIVER_EMAIL"))

DefaultConfig == Put(Put(EmptyDict, "url", EmptyStr), "keywords", <<>>)

\* load_config(): [raised, config, data]: whether json.load raised, the dict
\* returned, and the contents of config.json afterwards (it is created when
\* absent)
load_config(ex, dat, e) ==
    IF ~ex
    THEN [raised |-> FALSE, config |-> merge_env(DefaultConfig, e),
          data |-> save_config(DefaultConfig)]
    ELSE LET r == json_load(dat)
         IN  IF r.ok
             THEN [raised |-> FALSE, config |-> merge_env(r.obj, e), data |-> dat]
             ELSE [raised |-> TRUE, config |-> EmptyDict, data |-> dat]

---------------------------------------------------------------------------
(* PageFetcher, KeywordMatcher, Notifier.                                  *)

RECURSIVE phrases(_)
\* the phrases of the stripped lines: line.strip().split("  ") for each line
phrases(lines) ==
    IF Len(lines) = 0 THEN <<>>
    ELSE split(strip(Head(lines)), <<" ", " ">>) \o phrases(Tail(lines))

\* scrape_webpage: the whitespace clean-up of soup.get_text()
clean_text(t) == join(<<" ">>, strip_nonempty(phrases(split(t, <<"\n">>))))

\* scrape_webpage(url) given what the request did: None when requests.get or
\* raise_for_status raised, else the cleaned text of the page
scrape_webpage(u, outcome) ==
    IF ~outcome.ok THEN None ELSE Some(clean_text(outcome.page))

RECURSIVE check_keywords_loop(_, _, _)
check_keywords_loop(text_lower, kws, found_keywords) ==
    IF Len(kws) = 0 THEN found_keywords
    ELSE LET keyword == Head(kws)
         IN  check_keywords_loop(text_lower, Tail(kws),
                 IF Len(strip(keyword)) > 0 /\ contains(lower(strip(keyword)), text_lower)
                 THEN Append(found_keywords, strip(keyword))
                 ELSE found_keywords)

\* a slip: the text is searched as it is, not lower-cased
check_keywords_case_sensitive(t, kws) == check_keywords_loop(t, kws, <<>>)

\* check_keywords(text, keywords)
check_keywords(t, kws) == check_keywords_loop(lower(t), kws, <<>>)

\* send_email(...): True, or False when anything in the SMTP exchange raised
send_email(sender_email, sender_password, receiver_email, smtp_ok) == smtp_ok

---------------------------------------------------------------------------
(* The request handlers' decisions, as functions of what they read.        *)

Msg(t, a) == [text |-> t, arg |-> a]
Body(status, message) == [status |-> status, message |-> message]
BodyFound(status, message, found_keywords) ==
    [status |-> status, message |-> message, found_keywords |-> found_keywords]
Response(code, body) == [code |-> code, body |-> body]
NoResponse == Response(0, Body("none", Msg("", <<>>)))

\* Python truth of an optional str: neither None nor ''
Truthy(o) == ~IsNone(o) /\ Len(Val(o)) > 0

\* a or b, on optional strs
PyOr(a, b) == IF Truthy(a) THEN a ELSE b

\* a slip: any non-empty token is accepted
check_auth_any_token(check_token, header, token) ==
    IF ~Truthy(check_token) THEN 500
    ELSE IF ~Truthy(PyOr(header, token)) THEN 401
    ELSE 200

\* check(): 500 without CHECK_TOKEN, 401 without the right token, else 200
\* and _perform_check() is called
check_auth(check_token, header, token) ==
    IF ~Truthy(check_token) THEN 500
    ELSE LET provided_token == PyOr(header, token)
         IN  IF ~Truthy(provided_token) \/ provided_token # check_token
             THEN 401
             ELSE 200

\* update_config / check_ui: the referer check
referer_ok(referer, host) == Len(referer) > 0 /\ contains(host, referer)

\* a slip: an empty form field falls back to the saved url
resolve_url_nonempty(form, config) ==
    IF Len(strip(Get(form, "url", EmptyStr))) > 0
    THEN strip(form["url"])
    ELSE strip(config["url"])

\* _perform_check: url = request.form.get('url', config['url']).strip()
resolve_url(form, config) == strip(Get(form, "url", config["url"]))

\* _perform_check: keywords from request.form.get('keywords', ','.join(...))
resolve_keywords(form, config) ==
    comma_list(Get(form, "keywords", join(<<",">>, config["keywords"])))

email_complete(config) ==
    /\ Len(config["sender_email"]) > 0
    /\ Len(config["sender_password"]) > 0
    /\ Len(config["receiver_email"]) > 0

\* a slip: the error results carry an empty found_keywords
validate_config_with_found(u, kws, config) ==
    IF Len(u) = 0 THEN Some(BodyFound("error", Msg("No URL configured", <<>>), <<>>))
    ELSE IF Len(kws) = 0
         THEN Some(BodyFound("error", Msg("No keywords configured", <<>>), <<>>))
    ELSE IF ~email_complete(config)
         THEN Some(BodyFound("error",
                  Msg("Email configuration incomplete - check your secrets", <<>>), <<>>))
    ELSE None

\* _perform_check, "Validate configuration": the error returned, or None
validate_config(u, kws, config) ==
    IF Len(u) = 0 THEN Some(Body("error", Msg("No URL configured", <<>>)))
    ELSE IF Len(kws) = 0 THEN Some(Body("error", Msg("No keywords configured", <<>>)))
    ELSE IF ~email_complete(config)
         THEN Some(Body("error",
                  Msg("Email configuration incomplete - check your secrets", <<>>)))
    ELSE None

\* a slip: "if not text" for "if text is None"
scrape_failed_falsy(t) == ~Truthy(t)

\* _perform_check: if text is None
scrape_failed(t) == IsNone(t)

scrape_error(u) == Body("error", Msg("Failed to scrape webpage: ", u))

no_match_result ==
    BodyFound("info", Msg("No keywords found on the webpage", <<>>), <<>>)

\* a slip: a failed delivery reported as an error without the keywords
notify_result_error(email_sent, found_keywords) ==
    IF email_sent
    THEN BodyFound("success",
             Msg("Keywords found and email sent: ", join(<<",", " ">>, found_keywords)),
             found_keywords)
    ELSE Body("error",
             Msg("Keywords found but email failed: ", join(<<",", " ">>, found_keywords)))

\* _perform_check: the result after send_email returned
notify_result(email_sent, found_keywords) ==
    IF email_sent
    THEN BodyFound("success",
             Msg("Keywords found and email sent: ", join(<<",", " ">>, found_keywords)),
             found_keywords)
    ELSE BodyFound("warning",
             Msg("Keywords found but email failed: ", join(<<",", " ">>, found_keywords)),
             found_keywords)

exception_result == Body("error", Msg("Error during check: ", <<>>))

---------------------------------------------------------------------------
(* Inputs: the environments, requests and outcomes the model draws from.   *)

\* the longest keyword list the drivers hand to save_config / check_keywords
MaxKeywords == 2

\* the number of concurrent request threads
NumThreads == 2

Host == <<"h">>
Referers == {<<>>, <<"h", "/">>, <<"e", "/">>}

MkEnv(du, dk, se, sp, re, tok) ==
    [DEFAULT_URL |-> du, DEFAULT_KEYWORDS |-> dk, SENDER_EMAIL |-> se,
     SENDER_EMAIL_PASSWORD |-> sp, RECEIVER_EMAIL |-> re, CHECK_TOKEN |-> tok]

DefaultUrls == {<<>>, <<" ", "d">>}
DefaultKeywords == {<<>>, <<"b", ",", " ", "A", ",">>}
CheckTokens == {None, Some(<<>>), Some(<<"t">>)}
GoodSecrets == <<<<"s">>, <<"p">>, <<"r">>>>
BadSecrets == {<<<<>>, <<"p">>, <<"r">>>>, <<<<"s">>, <<>>, <<"r">>>>,
               <<<<"s">>, <<"p">>, <<>>>>}

\* every CHECK_TOKEN with complete mail settings, and each incomplete mail
\* setting with a CHECK_TOKEN set
Envs ==
    {MkEnv(du, dk, GoodSecrets[1], GoodSecrets[2], GoodSecrets[3], tok) :
        du \in DefaultUrls, dk \in DefaultKeywords, tok \in CheckTokens}
    \cup
    {MkEnv(du, dk, sec[1], sec[2], sec[3], Some(<<"t">>)) :
        du \in DefaultUrls, dk \in DefaultKeywords, sec \in BadSecrets}

FormUrls == {None, Some(<<>>), Some(<<" ", "u">>)}
FormKeywords == {None, Some(<<" ", ",">>), Some(<<"a", ",", " ", "B">>)}

\* request.form
Form(fu, fk) ==
    LET f1 == IF IsNone(fu) THEN EmptyDict ELSE Put(EmptyDict, "url", Val(fu))
    IN  IF IsNone(fk) THEN f1 ELSE Put(f1, "keywords", Val(fk))

Forms == {Form(fu, fk) : fu \in FormUrls, fk \in FormKeywords}

HeaderTokens == {None, Some(<<>>), Some(<<"t">>), Some(<<"t", "t">>)}
QueryTokens == {None, Some(<<"t">>), Some(<<"T">>)}

\* what the GET of the page did: an exception, or a page with this text
FetchOutcomes ==
    {[ok |-> FALSE, page |-> <<>>],
     [ok |-> TRUE, page |-> <<" ", "\n", " ">>],
     [ok |-> TRUE, page |-> <<"x", " ", " ", "y">>],
     [ok |-> TRUE, page |-> <<"A", " ", " ", "b">>]}

\* config.json at start-up: absent, or left empty by an interrupted save
InitialFiles ==
    {[exists |-> FALSE, data |-> <<>>],
     [exists |-> TRUE, data |-> <<>>]}

---------------------------------------------------------------------------
(* The web application, one request at a time.                             *)

Stages == <<"load", "validate", "fetch", "match", "notify">>

Idle == pc \in {"idle", "done"}

ResetLocals ==
    /\ url' = EmptyStr
    /\ keywords' = <<>>
    /\ text' = None
    /\ found' = <<>>
    /\ sent' = None
    /\ trace' = <<>>
    /\ cfg' = EmptyDict

Unused == UNCHANGED <<op, arg, tpc, tloc, saved, observed>>

Init ==
    /\ env \in Envs
    /\ \E f \in InitialFiles : exists = f.exists /\ data = f.data
    /\ pc = "idle"
    /\ op = "none"
    /\ arg = EmptyDict
    /\ cfg = EmptyDict
    /\ req = [route |-> "none", form |-> EmptyDict, header |-> None,
              token |-> None, referer |-> <<>>]
    /\ url = EmptyStr
    /\ keywords = <<>>
    /\ text = None
    /\ found = <<>>
    /\ sent = None
    /\ resp = NoResponse
    /\ trace = <<>>
    /\ tpc = <<>>
    /\ tloc = <<>>
    /\ saved = {}
    /\ observed = {}

Request(route, form, header, token, referer) ==
    [route |-> route, form |-> form, header |-> header, token |-> token,
     referer |-> referer]

\* GET /
index ==
    /\ Idle
    /\ LET r == load_config(exists, data, env)
       IN  /\ exists' = TRUE
           /\ data' = r.data
           /\ ResetLocals
           /\ resp' = IF r.raised
                      THEN Response(500, Body("exception", Msg("JSONDecodeError", <<>>)))
                      ELSE Response(200, Body("page", Msg("index.html", r.config["url"])))
    /\ req' = Request("index", EmptyDict, None, None, <<>>)
    /\ pc' = "done"
    /\ UNCHANGED env
    /\ Unused

\* GET /status
status ==
    /\ Idle
    /\ LET r == load_config(exists, data, env)
       IN  /\ exists' = TRUE
           /\ data' = r.data
           /\ ResetLocals
           /\ resp' = IF r.raised
                      THEN Response(500, Body("exception", Msg("JSONDecodeError", <<>>)))
                      ELSE Response(200,
                               [status |-> "status",
                                message |-> Msg("config", r.config["url"]),
                                url_configured |-> Len(r.config["url"]) > 0,
                                keywords_configured |-> Len(r.config["keywords"]) > 0,
                                email_configured |-> email_complete(r.config)])
    /\ req' = Request("status", EmptyDict, None, None, <<>>)
    /\ pc' = "done"
    /\ UNCHANGED env
    /\ Unused

\* POST /update_config
update_config(referer, form) ==
    /\ Idle
    /\ req' = Request("update_config", form, None, None, referer)
    /\ ResetLocals
    /\ pc' = "done"
    /\ IF ~referer_ok(referer, Host)
       THEN /\ resp' = Response(302, Body("error", Msg("Invalid request", <<>>)))
            /\ UNCHANGED <<exists, data>>
       ELSE LET r == load_config(exists, data, env)
                config == Put(Put(r.config, "url", strip(Get(form, "url", EmptyStr))),
                              "keywords", comma_list(Get(form, "keywords", EmptyStr)))
            IN  IF r.raised
                THEN /\ resp' = Response(302,
                                    Body("error", Msg("Error updating configuration", <<>>)))
                     /\ UNCHANGED <<exists, data>>
                ELSE /\ exists' = TRUE
                     /\ data' = save_config(config)
                     /\ resp' = Response(302,
                                    Body("success",
                                         Msg("Configuration updated successfully!", <<>>)))
    /\ UNCHANGED env
    /\ Unused

\* POST /check
check(header, token, form) ==
    /\ Idle
    /\ req' = Request("check", form, header, token, <<>>)
    /\ ResetLocals
    /\ LET code == check_auth(env.CHECK_TOKEN, header, token)
       IN  IF code = 500
           THEN /\ resp' = Response(500, Body("error", Msg("CHECK_TOKEN not configured", <<>>)))
                /\ pc' = "done"
           ELSE IF code = 401
           THEN /\ resp' = Response(401,
                               Body("error", Msg("Unauthorized - invalid or missing token", <<>>)))
                /\ pc' = "done"
           ELSE /\ resp' = NoResponse
                /\ pc' = "load"
    /\ UNCHANGED <<env, exists, data>>
    /\ Unused

\* POST /check_ui
check_ui(referer, form) ==
    /\ Idle
    /\ req' = Request("check_ui", form, None, None, referer)
    /\ ResetLocals
    /\ IF ~referer_ok(referer, Host)
       THEN /\ resp' = Response(400, Body("error", Msg("Invalid request", <<>>)))
            /\ pc' = "done"
       ELSE /\ resp' = NoResponse
            /\ pc' = "load"
    /\ UNCHANGED <<env, exists, data>>
    /\ Unused

\* _perform_check: config = load_config(), then url, keywords and the
\* validation of the configuration.  Both routes that call it accept POST
\* only, so url and keywords always come from the request.method == 'POST'
\* branch.
perform_check_validate ==
    /\ pc = "load"
    /\ LET r == load_config(exists, data, env)
       IN  /\ exists' = TRUE
           /\ data' = r.data
           /\ IF r.raised
              THEN /\ trace' = Append(trace, "load")
                   /\ resp' = Response(200, exception_result)
                   /\ pc' = "done"
                   /\ UNCHANGED <<cfg, url, keywords>>
              ELSE LET u == resolve_url(req.form, r.config)
                       kws == resolve_keywords(req.form, r.config)
                       err == validate_config(u, kws, r.config)
                   IN  /\ trace' = trace \o <<"load", "validate">>
                       /\ cfg' = r.config
                       /\ url' = u
                       /\ keywords' = kws
                       /\ IF IsNone(err)
                          THEN pc' = "fetch" /\ UNCHANGED resp
                          ELSE pc' = "done" /\ resp' = Response(200, Val(err))
    /\ UNCHANGED <<env, req, text, found, sent>>
    /\ Unused

\* a slip: a failed fetch is tried again
perform_check_fetch_retry(outcome) ==
    /\ pc = "fetch"
    /\ Len(trace) < 6
    /\ text' = scrape_webpage(url, outcome)
    /\ trace' = Append(trace, "fetch")
    /\ pc' = IF scrape_failed(text') THEN "fetch" ELSE "match"
    /\ UNCHANGED <<env, exists, data, req, cfg, url, keywords, found, sent, resp>>
    /\ Unused

\* _perform_check: text = scrape_webpage(url)
perform_check_fetch(outcome) ==
    /\ pc = "fetch"
    /\ text' = scrape_webpage(url, outcome)
    /\ trace' = Append(trace, "fetch")
    /\ IF scrape_failed(text')
       THEN pc' = "done" /\ resp' = Response(200, scrape_error(url))
       ELSE pc' = "match" /\ UNCHANGED resp
    /\ UNCHANGED <<env, exists, data, req, cfg, url, keywords, found, sent>>
    /\ Unused

\* _perform_check: found_keywords = check_keywords(text, keywords)
perform_check_match ==
    /\ pc = "match"
    /\ found' = check_keywords(Val(text), keywords)
    /\ trace' = Append(trace, "match")
    /\ IF Len(found') > 0
       THEN pc' = "notify" /\ UNCHANGED resp
       ELSE pc' = "done" /\ resp' = Response(200, no_match_result)
    /\ UNCHANGED <<env, exists, data, req, cfg, url, keywords, text, sent>>
    /\ Unused

\* _perform_check: email_sent = send_email(...), and the result
perform_check_notify(smtp_ok) ==
    /\ pc = "notify"
    /\ LET email_sent == send_email(cfg["sender_email"], cfg["sender_password"],
                                    cfg["receiver_email"], smtp_ok)
       IN  /\ sent' = Some(email_sent)
           /\ resp' = Response(200, notify_result(email_sent, found))
    /\ trace' = Append(trace, "notify")
    /\ pc' = "done"
    /\ UNCHANGED <<env, exists, data, req, cfg, url, keywords, text, found>>
    /\ Unused

Next ==
    \/ index
    \/ status
    \/ \E referer \in Referers, form \in Forms : update_config(referer, form)
    \/ \E header \in HeaderTokens, token \in QueryTokens, form \in Forms :
           check(header, token, form)
    \/ \E referer \in Referers, form \in Forms : check_ui(referer, form)
    \/ perform_check_validate
    \/ \E outcome \in FetchOutcomes : perform_check_fetch(outcome)
    \/ perform_check_match
    \/ \E smtp_ok \in BOOLEAN : perform_check_notify(smtp_ok)

Spec == Init /\ [][Next]_vars

---------------------------------------------------------------------------
(* Properties of the web application (specification Spec).                 *)

IsPrefix(p, q) == Len(p) <= Len(q) /\ SubSeq(q, 1, Len(p)) = p

\* sub occurs in s, position by position
IsSubstring(sub, s) ==
    \E off \in 0..(Len(s) - Len(sub)) : \A j \in 1..Len(sub) : s[off + j] = sub[j]

\* the trimmed, non-empty entries of K whose lowercase form occurs in
\* lowercase T, in K's order
MatchSpec(T, K) ==
    SelectSeq([i \in 1..Len(K) |-> strip(K[i])],
              LAMBDA k : Len(k) > 0 /\ IsSubstring(lower(k), lower(T)))

\* _perform_check was entered for the current request
Invoked == pc \in {"load", "fetch", "match", "notify"} \/ Len(trace) > 0

\* no effect of the pipeline is there
NothingRan ==
    /\ ~Invoked
    /\ Len(cfg) = 0
    /\ IsNone(text)
    /\ Len(found) = 0
    /\ IsNone(sent)

\* the token the caller supplied: the header, or without one the query parameter
SuppliedToken == IF Truthy(req.header) THEN req.header ELSE req.token

TokenConfigured == ~IsNone(env.CHECK_TOKEN) /\ Len(Val(env.CHECK_TOKEN)) > 0

\* C2: through /check the pipeline runs only if CHECK_TOKEN is configured and
\* the supplied token equals it; without a configured token the answer is
\* 500, with a missing or different token 401, and in both cases nothing of
\* the pipeline (load, fetch, match, send) has run.
C2_TokenGate ==
    req.route = "check" =>
        /\ Invoked => TokenConfigured /\ SuppliedToken = env.CHECK_TOKEN
        /\ ~TokenConfigured => resp.code = 500 /\ NothingRan
        /\ (TokenConfigured /\ SuppliedToken # env.CHECK_TOKEN) =>
               resp.code = 401 /\ NothingRan

\* a wrong header token is refused although the query parameter is right
C2_Witness ==
    /\ req.route = "check"
    /\ env.CHECK_TOKEN = Some(<<"t">>)
    /\ req.header = Some(<<"t", "t">>)
    /\ req.token = Some(<<"t">>)
    /\ resp.code = 401
    /\ pc = "done"

\* _perform_check resolved url and keywords for the current request
Resolved == "url" \in DOMAIN cfg

Incomplete == Len(url) = 0 \/ Len(keywords) = 0 \/ ~email_complete(cfg)

\* C3: the stages of one invocation run in the order load/validate, fetch,
\* match, notify, each at most once: fetch only after a passed validation,
\* match only after a fetch that returned text, notify only after a non-empty
\* match, and an error result ends the invocation.
C3_StageOrder ==
    /\ IsPrefix(trace, Stages)
    /\ Len(trace) >= 3 => Resolved /\ ~Incomplete
    /\ Len(trace) >= 4 => ~IsNone(text)
    /\ Len(trace) >= 5 => Len(found) > 0
    /\ (Len(trace) > 0 /\ resp.body.status = "error") => pc = "done"
    /\ (pc = "done" /\ Len(trace) > 0) => resp.body.status \in {"error", "info", "success", "warning"}

\* an invocation that ran all the stages
C3_Witness == pc = "done" /\ trace = Stages /\ resp.body.status = "success"

\* C4: once the match stage ran, the result follows from the match list M
\* and the send outcome: info with an empty list for an empty M, success
\* with M when the send returned true, warning with M when it returned false.
C4_ResultFromMatch ==
    (pc = "done" /\ Len(trace) >= 4) =>
        LET M == MatchSpec(Val(text), keywords)
        IN  /\ Len(M) = 0 =>
                /\ resp.body.status = "info"
                /\ resp.body.found_keywords = <<>>
                /\ IsNone(sent)
            /\ Len(M) > 0 =>
                /\ ~IsNone(sent)
                /\ resp.body.status = (IF Val(sent) THEN "success" ELSE "warning")
                /\ resp.body.found_keywords = M

\* keywords were found and the mail could not be delivered
C4_Witness ==
    /\ pc = "done"
    /\ sent = Some(FALSE)
    /\ resp.body.status = "warning"
    /\ resp.body.found_keywords = <<<<"a">>, <<"B">>>>

\* C5 as stated: an incomplete configuration gives an error result whose
\* found_keywords is the empty list.
C5_Original ==
    (Resolved /\ Incomplete) =>
        /\ pc = "done"
        /\ resp.body.status = "error"
        /\ "found_keywords" \in DOMAIN resp.body
        /\ resp.body.found_keywords = <<>>
        /\ Len(url) = 0 => resp.body.message.text = "No URL configured"

\* C5: an empty effective url, an empty effective keyword list or an empty
\* mail setting gives an error result that carries no found_keywords field
\* (for the empty url the message is "No URL configured"), and no later
\* stage runs.
C5_ErrorWithoutFound ==
    (Resolved /\ Incomplete) =>
        /\ pc = "done"
        /\ trace = <<"load", "validate">>
        /\ resp.body.status = "error"
        /\ "found_keywords" \notin DOMAIN resp.body
        /\ Len(url) = 0 => resp.body.message.text = "No URL configured"

\* the keyword list is there and the url is not
C5_Witness ==
    /\ Resolved
    /\ Len(url) = 0
    /\ Len(keywords) > 0
    /\ pc = "done"
    /\ resp.body.message.text = "No URL configured"

\* C6 as stated: an override that is supplied but empty falls back to the
\* stored value.
C6_Original ==
    Resolved =>
        /\ url = (IF Len(strip(Get(req.form, "url", EmptyStr))) > 0
                  THEN strip(req.form["url"])
                  ELSE strip(cfg["url"]))
        /\ keywords = (IF Len(comma_list(Get(req.form, "keywords", EmptyStr))) > 0
                       THEN comma_list(req.form["keywords"])
                       ELSE cfg["keywords"])

\* C6: the effective url is the trimmed override whenever the form carries
\* the url field, empty or not, and the trimmed stored url otherwise; the
\* effective keyword list is the trimmed non-empty comma-separated entries of
\* the override whenever the form carries the keywords field, and the stored
\* list otherwise.
C6_OverrideIfSupplied ==
    Resolved =>
        /\ url = (IF "url" \in DOMAIN req.form
                  THEN strip(req.form["url"])
                  ELSE strip(cfg["url"]))
        /\ keywords = (IF "keywords" \in DOMAIN req.form
                       THEN comma_list(req.form["keywords"])
                       ELSE cfg["keywords"])

\* an empty url override is used although a url is stored
C6_Witness ==
    /\ Resolved
    /\ "url" \in DOMAIN req.form
    /\ Len(req.form["url"]) = 0
    /\ Len(cfg["url"]) > 0
    /\ Len(url) = 0
    /\ resp.body.message.text = "No URL configured"

FetchRan == Len(trace) >= 3

\* C7 as stated: a failed fetch and a fetch with empty text both end in an
\* error naming the url, with no match and no send.
C7_Original ==
    (FetchRan /\ (IsNone(text) \/ text = Some(EmptyStr))) =>
        /\ pc = "done"
        /\ trace = <<"load", "validate", "fetch">>
        /\ resp.body.status = "error"
        /\ resp.body.message.arg = url
        /\ IsNone(sent)

\* C7: a failed fetch (scrape_webpage returned None) ends in an error naming
\* the url, with no match and no send; a fetch that returned empty text is
\* not a failure: it is matched and ends in info with no send.
C7_FetchFailure ==
    /\ (FetchRan /\ IsNone(text)) =>
        /\ pc = "done"
        /\ trace = <<"load", "validate", "fetch">>
        /\ resp.body.status = "error"
        /\ resp.body.message.text = "Failed to scrape webpage: "
        /\ resp.body.message.arg = url
        /\ IsNone(sent)
    /\ (FetchRan /\ text = Some(EmptyStr)) =>
        /\ pc \in {"match", "done"}
        /\ pc = "done" =>
            /\ trace = <<"load", "validate", "fetch", "match">>
            /\ resp.body.status = "info"
            /\ IsNone(sent)

\* the request for the page raised
C7_Witness ==
    /\ FetchRan
    /\ IsNone(text)
    /\ pc = "done"
    /\ resp.body.status = "error"
    /\ resp.body.message.arg = <<"u">>

---------------------------------------------------------------------------
(* The ConfigStore on its own: load_config, save_config and the body of    *)
(* update_config applied in any order to any configuration value.          *)

KeywordLists(S, n) == UNION {[1..m -> S] : m \in 0..n}

StoreUrls == {<<>>, <<"u">>, <<" ", "u">>}
StoreKeywords == {<<>>, <<"a">>, <<" ", "B">>}

\* the values passed to save_config: url and keywords alone, with secret
\* fields as well, and a dict with neither
SaveArgs ==
    {[url |-> u, keywords |-> K] :
        u \in StoreUrls, K \in KeywordLists(StoreKeywords, MaxKeywords)}
    \cup
    {[url |-> u, keywords |-> K, sender_email |-> <<"x">>,
      sender_password |-> <<"y">>, receiver_email |-> <<"z">>] :
        u \in StoreUrls, K \in KeywordLists(StoreKeywords, MaxKeywords)}
    \cup {EmptyDict}

StoreEnvs ==
    {MkEnv(du, dk, GoodSecrets[1], GoodSecrets[2], GoodSecrets[3], None) :
        du \in DefaultUrls, dk \in DefaultKeywords}

StoreForms == {Form(Some(<<" ", "u">>), Some(<<"a", ",", " ", "B">>)),
               Form(None, Some(<<" ", ",">>))}

UnusedByStore ==
    UNCHANGED <<env, pc, req, url, keywords, text, found, resp, trace, sent,
                tpc, tloc, saved, observed>>

InitStore ==
    /\ env \in StoreEnvs
    /\ exists = FALSE
    /\ data = <<>>
    /\ pc = "store"
    /\ op = "none"
    /\ arg = EmptyDict
    /\ cfg = EmptyDict
    /\ req = [route |-> "none", form |-> EmptyDict, header |-> None,
              token |-> None, referer |-> <<>>]
    /\ url = EmptyStr
    /\ keywords = <<>>
    /\ text = None
    /\ found = <<>>
    /\ sent = None
    /\ resp = NoResponse
    /\ trace = <<>>
    /\ tpc = <<>>
    /\ tloc = <<>>
    /\ saved = {}
    /\ observed = {}

\* save_config(config)
store_save(config) ==
    /\ pc = "store"
    /\ exists' = TRUE
    /\ data' = save_config(config)
    /\ op' = "save"
    /\ arg' = config
    /\ cfg' = EmptyDict
    /\ UnusedByStore

\* config = load_config()
store_load ==
    /\ pc = "store"
    /\ LET r == load_config(exists, data, env)
       IN  /\ exists' = TRUE
           /\ data' = r.data
           /\ cfg' = r.config
           /\ op' = IF r.raised THEN "load_raised"
                    ELSE IF op = "save" THEN "load_after_save"
                    ELSE "load"
    /\ UNCHANGED arg
    /\ UnusedByStore

\* update_config's try block: load_config, the form's fields, save_config
store_update(form) ==
    /\ pc = "store"
    /\ LET r == load_config(exists, data, env)
           config == Put(Put(r.config, "url", strip(Get(form, "url", EmptyStr))),
                         "keywords", comma_list(Get(form, "keywords", EmptyStr)))
       IN  IF r.raised
           THEN /\ op' = "update_failed"
                /\ UNCHANGED <<exists, data, arg, cfg>>
           ELSE /\ exists' = TRUE
                /\ data' = save_config(config)
                /\ op' = "update"
                /\ arg' = config
                /\ cfg' = r.config
    /\ UnusedByStore

NextStore ==
    \/ \E config \in SaveArgs : store_save(config)
    \/ store_load
    \/ \E form \in StoreForms : store_update(form)

SpecStore == InitStore /\ [][NextStore]_vars

Loaded == op \in {"load", "load_after_save"}

SecretsFromEnv ==
    /\ cfg["sender_email"] = env.SENDER_EMAIL
    /\ cfg["sender_password"] = env.SENDER_EMAIL_PASSWORD
    /\ cfg["receiver_email"] = env.RECEIVER_EMAIL

\* C1: whatever was passed to save_config, config.json holds a document with
\* exactly the members url and keywords, and the secret fields load_config
\* returns are the environment's.
C1_NoSecretsPersisted ==
    /\ exists =>
        /\ json_load(data).ok
        /\ DOMAIN json_load(data).obj = {"url", "keywords"}
        /\ \A i \in 1..Len(data) : data[i].v \notin {<<"x">>, <<"y">>, <<"z">>}
    /\ Loaded => SecretsFromEnv

\* a configuration with secrets was saved and then loaded
C1_Witness ==
    /\ op = "load_after_save"
    /\ "sender_password" \in DOMAIN arg
    /\ arg["sender_password"] = <<"y">>
    /\ cfg["sender_password"] = <<"p">>
    /\ exists

SavedUrlAndKeywords == op = "load_after_save" /\ DOMAIN arg = {"url", "keywords"}

\* C10 as stated: save_config({url: u, keywords: K}) then load_config()
\* returns u and K for any u and K, whatever the environment's defaults.
C10_Original ==
    SavedUrlAndKeywords =>
        /\ cfg["url"] = arg["url"]
        /\ cfg["keywords"] = arg["keywords"]
        /\ SecretsFromEnv

\* C10: save_config({url: u, keywords: K}) then load_config() returns u when
\* u is not empty and DEFAULT_URL when it is, K when K is not empty and the
\* entries of DEFAULT_KEYWORDS when it is, with the environment's secrets.
C10_RoundTrip ==
    SavedUrlAndKeywords =>
        /\ cfg["url"] = (IF Len(arg["url"]) > 0 THEN arg["url"] ELSE env.DEFAULT_URL)
        /\ cfg["keywords"] =
               (IF Len(arg["keywords"]) > 0 THEN arg["keywords"]
                ELSE IF Len(env.DEFAULT_KEYWORDS) > 0
                     THEN strip_nonempty(split(env.DEFAULT_KEYWORDS, <<",">>))
                     ELSE <<>>)
        /\ DOMAIN cfg = {"url", "keywords", "sender_email", "sender_password",
                         "receiver_email"}
        /\ SecretsFromEnv

\* an untrimmed url and a list with an empty entry come back as saved,
\* although the environment holds defaults
C10_Witness ==
    /\ SavedUrlAndKeywords
    /\ arg["url"] = <<" ", "u">>
    /\ arg["keywords"] = <<<<" ", "B">>, <<>>>>
    /\ cfg["url"] = <<" ", "u">>
    /\ cfg["keywords"] = <<<<" ", "B">>, <<>>>>
    /\ Len(env.DEFAULT_URL) > 0
    /\ Len(env.DEFAULT_KEYWORDS) > 0

---------------------------------------------------------------------------
(* check_keywords on its own.                                              *)

MatchTexts == {<<>>, <<"A", " ", "b">>, <<"b", "a">>, <<"x">>}
MatchKeywords == {<<>>, <<" ">>, <<"a">>, <<"B", " ">>, <<"a", "b">>,
                  <<" ", "A", " ", "B">>}

InitMatch ==
    /\ env = MkEnv(<<>>, <<>>, <<>>, <<>>, <<>>, None)
    /\ exists = FALSE
    /\ data = <<>>
    /\ pc = "match_input"
    /\ op = "none"
    /\ arg = EmptyDict
    /\ cfg = EmptyDict
    /\ req = [route |-> "none", form |-> EmptyDict, header |-> None,
              token |-> None, referer |-> <<>>]
    /\ url = EmptyStr
    /\ keywords \in KeywordLists(MatchKeywords, MaxKeywords)
    /\ \E t \in MatchTexts : text = Some(t)
    /\ found = <<>>
    /\ sent = None
    /\ resp = NoResponse
    /\ trace = <<>>
    /\ tpc = <<>>
    /\ tloc = <<>>
    /\ saved = {}
    /\ observed = {}

\* found_keywords = check_keywords(text, keywords)
match_apply ==
    /\ pc = "match_input"
    /\ found' = check_keywords(Val(text), keywords)
    /\ pc' = "match_output"
    /\ UNCHANGED <<env, exists, data, op, arg, cfg, req, url, keywords, text,
                   resp, trace, sent, tpc, tloc, saved, observed>>

NextMatch == match_apply

SpecMatch == InitMatch /\ [][NextMatch]_vars

\* C9: check_keywords(T, K) is exactly the trimmed, non-empty entries of K
\* whose lowercase form occurs in lowercase T, in K's order; so it is empty
\* for an empty K and for an empty T.
C9_MatchExact ==
    pc = "match_output" =>
        /\ found = MatchSpec(Val(text), keywords)
        /\ Len(keywords) = 0 => found = <<>>
        /\ Len(Val(text)) = 0 => found = <<>>

\* the result follows K's order, not the order of appearance in T
C9_Witness ==
    /\ pc = "match_output"
    /\ text = Some(<<"A", " ", "b">>)
    /\ keywords = <<<<"B", " ">>, <<"a">>>>
    /\ found = <<<<"B">>, <<"a">>>>

---------------------------------------------------------------------------
(* Concurrent requests (app.run serves each request in its own thread):    *)
(* handlers interleave at the file operations on config.json.              *)

Threads == 1..NumThreads

ConcForms == {Form(Some(<<"u">>), Some(<<"a">>)),
              Form(Some(<<"u">>), Some(<<"a", ",", "b">>))}

IdleLocals == [handler |-> "none", form |-> EmptyDict, config |-> EmptyDict]

InitConc ==
    /\ env = MkEnv(<<>>, <<>>, GoodSecrets[1], GoodSecrets[2], GoodSecrets[3], None)
    /\ exists = FALSE
    /\ data = <<>>
    /\ pc = "threads"
    /\ op = "none"
    /\ arg = EmptyDict
    /\ cfg = EmptyDict
    /\ req = [route |-> "none", form |-> EmptyDict, header |-> None,
              token |-> None, referer |-> <<>>]
    /\ url = EmptyStr
    /\ keywords = <<>>
    /\ text = None
    /\ found = <<>>
    /\ sent = None
    /\ resp = NoResponse
    /\ trace = <<>>
    /\ tpc = [t \in Threads |-> "idle"]
    /\ tloc = [t \in Threads |-> IdleLocals]
    /\ saved = {}
    /\ observed = {}

UnusedByThreads ==
    UNCHANGED <<env, pc, op, arg, cfg, req, url, keywords, text, found, resp,
                trace, sent>>

\* what a handler does with the dict load_config returned: index and status
\* only read it, update_config sets the form's fields and saves
after_load(t, config) ==
    IF tloc[t].handler = "update_config"
    THEN /\ tpc' = [tpc EXCEPT ![t] = "save_open"]
         /\ tloc' = [tloc EXCEPT ![t].config =
                Put(Put(config, "url", strip(Get(tloc[t].form, "url", EmptyStr))),
                    "keywords", comma_list(Get(tloc[t].form, "keywords", EmptyStr)))]
    ELSE /\ tpc' = [tpc EXCEPT ![t] = "idle"]
         /\ tloc' = [tloc EXCEPT ![t] = IdleLocals]

\* a request arrives and its handler calls load_config
thread_start(t, handler, form) ==
    /\ tpc[t] = "idle"
    /\ tpc' = [tpc EXCEPT ![t] = "read"]
    /\ tloc' = [tloc EXCEPT ![t] = [handler |-> handler, form |-> form,
                                    config |-> EmptyDict]]
    /\ UNCHANGED <<exists, data, saved, observed>>
    /\ UnusedByThreads

\* load_config: open(CONFIG_FILE, 'r') and json.load(f)
thread_read(t) ==
    /\ tpc[t] = "read"
    /\ IF ~exists
       THEN /\ tpc' = [tpc EXCEPT ![t] = "create_open"]
            /\ tloc' = [tloc EXCEPT ![t].config = DefaultConfig]
            /\ UNCHANGED observed
       ELSE LET r == json_load(data)
            IN  IF r.ok
                THEN /\ observed' = observed \cup {"complete"}
                     /\ after_load(t, merge_env(r.obj, env))
                ELSE /\ observed' = observed \cup
                            {IF Len(data) = 0 THEN "empty" ELSE "partial"}
                     /\ tpc' = [tpc EXCEPT ![t] = "idle"]
                     /\ tloc' = [tloc EXCEPT ![t] = IdleLocals]
    /\ UNCHANGED <<exists, data, saved>>
    /\ UnusedByThreads

\* save_config: open(CONFIG_FILE, 'w') creates or truncates the file
thread_open_write(t) ==
    /\ tpc[t] \in {"create_open", "save_open"}
    /\ exists' = TRUE
    /\ data' = <<>>
    /\ tpc' = [tpc EXCEPT ![t] = IF tpc[t] = "create_open" THEN "create_write"
                                 ELSE "save_write"]
    /\ UNCHANGED <<tloc, saved, observed>>
    /\ UnusedByThreads

\* save_config: the document is written from offset 0 as the file is closed
thread_write(t) ==
    /\ tpc[t] \in {"create_write", "save_write"}
    /\ LET doc == save_config(tloc[t].config)
       IN  /\ data' = doc \o SubSeq(data, Len(doc) + 1, Len(data))
           /\ saved' = saved \cup {doc}
    /\ IF tpc[t] = "create_write"
       THEN after_load(t, merge_env(tloc[t].config, env))
       ELSE /\ tpc' = [tpc EXCEPT ![t] = "idle"]
            /\ tloc' = [tloc EXCEPT ![t] = IdleLocals]
    /\ UNCHANGED <<exists, observed>>
    /\ UnusedByThreads

NextConc ==
    \/ \E t \in Threads : thread_start(t, "index", EmptyDict)
    \/ \E t \in Threads, form \in ConcForms : thread_start(t, "update_config", form)
    \/ \E t \in Threads : thread_read(t)
    \/ \E t \in Threads : thread_open_write(t)
    \/ \E t \in Threads : thread_write(t)

SpecConc == InitConc /\ [][NextConc]_vars

Quiescent == \A t \in Threads : tpc[t] = "idle"

\* C8: however the file operations of concurrent handlers interleave, once
\* they are done config.json holds the complete document of one of the saves,
\* and no read of config.json sees an empty or partial document.
C8_LastWriteWins ==
    /\ observed \subseteq {"complete"}
    /\ (Quiescent /\ exists) => data \in saved

====
